---- MODULE Spec2Model ----
(***************************************************************************)
(* A model of src/main.rs: LinkedList<T>, a doubly linked list whose nodes *)
(* are heap boxes (Box<Node<T>>) and whose values live in mapped device    *)
(* memory regions (GpuBox<T>), together with its double-ended iterator     *)
(* Iter<'a, T> and its Drop implementation.                                *)
(*                                                                         *)
(* Pointers are node addresses, None is the absent Option.  The push/pop   *)
(* pair is generated by the macro push_pop_impl; the model keeps the macro *)
(* as one pair of operators parameterised by the four field names, and     *)
(* instantiates it twice exactly as lines 148-149 do.                      *)
(***************************************************************************)
EXTENDS Integers, Sequences, FiniteSets, TLC

\* ---------------------------------------------------------------- bounds
\* Number of node addresses (and of mapped regions) the heap can hold.
MaxNodes == 3
\* Values of T are 1..MaxVal.
MaxVal == 2
\* Calls of push_front/push_back a free-running client makes.
MaxPushes == 4
\* Calls of iter() a free-running client makes.
MaxIters == 1

\* ------------------------------------------------------------ value space
\* Option::None, for pointers (Option<NonNull<Node<T>>>) and results (Option<T>).
None == 0
NodeAddrs == 1..MaxNodes
RegionIds == 1..MaxNodes
Values == 1..MaxVal

VARIABLES
    list,        \* LinkedList<T>: [head, tail, len]
    nodes,       \* node heap: address -> [live, prev, next, data]
    regions,     \* mapped device memory: region -> [live, val]
    leaked,      \* heap boxes leaked by GpuBox::as_ref and never released
    uninitDrops, \* values dropped out of not yet initialised regions (GpuBox::new)
    freedTwice,  \* a node or a region was released while not allocated
    uaf,         \* an iterator step dereferenced a node that was not allocated
    it,          \* the Iter<'a, T> in scope: [alive, head, tail, len]
    seen,        \* what the iterator in scope has yielded: [fwd, bwd, ended]
    iters,       \* calls of iter() so far
    phase,       \* "live", "dropping" (inside Drop::drop), "dropped"
    dropStart,   \* the values held, head to tail, when Drop::drop was entered
    destroyed,   \* the values Drop::drop has destroyed, in order
    pushes,      \* push calls that returned
    pops,        \* pop calls that returned Some
    ret,         \* the last call and what it returned: [op, val, panic]
    drv          \* the client program driving the list

listVars == <<list, nodes, regions>>
heapVars == <<leaked, uninitDrops, freedTwice>>
iterVars == <<it, seen, iters, uaf>>
dropVars == <<phase, dropStart, destroyed>>
vars == <<list, nodes, regions, leaked, uninitDrops, freedTwice, uaf, it, seen,
          iters, phase, dropStart, destroyed, pushes, pops, ret, drv>>

\* ------------------------------------------------------------- the heap
FreedNode == [live |-> FALSE, prev |-> None, next |-> None, data |-> None]
FreedRegion == [live |-> FALSE, val |-> None]
FreeNodes == {a \in NodeAddrs : ~nodes[a].live}
FreeRegions == {r \in RegionIds : ~regions[r].live}
LiveNodes == {a \in NodeAddrs : nodes[a].live}
LiveRegions == {r \in RegionIds : regions[r].live}

\* LinkedList::with_device: an empty list.
with_device == [head |-> None, tail |-> None, len |-> 0]

\* The iterator of a list that is not being iterated.
NoIter == [alive |-> FALSE, head |-> None, tail |-> None, len |-> 0]
NoSeen == [fwd |-> <<>>, bwd |-> <<>>, ended |-> FALSE]

\* (mutant of Borrowed) Iter carries no lifetime: the list is never borrowed.
Unborrowed == FALSE

\* A list is borrowed for 'a while the Iter<'a, T> made from it is in scope:
\* iter(&self) ties 'a to the borrow of the list, and push/pop/drop need
\* &mut self, which the borrow checker refuses for that long.
Borrowed == it.alive

Result(op, val) == [op |-> op, val |-> val, panic |-> FALSE]
Panicked(op) == [op |-> op, val |-> None, panic |-> TRUE]

\* ------------------------------------------------------------- GpuBox<T>
\* GpuBox::new on region r (what alloc_and_map returned): `*content = data`
\* drops whatever the fresh region held, then writes data.
GpuBox_new(data, r) ==
    [regions |-> [regions EXCEPT ![r] = [live |-> TRUE, val |-> data]],
     uninitDrops |-> uninitDrops + 1]

\* GpuBox::as_ref: boxes the read/write view of the region, leaks the box and
\* returns a reference through it.
as_ref(r) ==
    [val |-> IF r \in RegionIds THEN regions[r].val ELSE None,
     leaked |-> leaked + 1]

\* (mutant of into_inner) self is forgotten instead of dropped: the mapped
\* region is never released.
into_inner_forgets(r) ==
    [val |-> as_ref(r).val,
     leaked |-> as_ref(r).leaked,
     regions |-> regions,
     freedTwice |-> freedTwice]

\* GpuBox::into_inner(self): ptr::read through as_ref, then self is dropped and
\* with it the mapped region.
into_inner(r) ==
    [val |-> as_ref(r).val,
     leaked |-> as_ref(r).leaked,
     regions |-> IF r \in RegionIds THEN [regions EXCEPT ![r] = FreedRegion] ELSE regions,
     freedTwice |-> freedTwice \/ r \notin RegionIds \/ ~regions[r].live]

\* ---------------------------------------------------- push_pop_impl!
\* $push_fn, as the state it leaves and whether it panicked.  GpuBox::new runs
\* first, inside the Node literal: with `ok` false its unwrap() panics before
\* the node is boxed or anything is linked.  Box::new returns address a,
\* alloc_and_map region r.
push_fn(new_node_from, old_node_from, new_node_dir, old_node_dir, data, a, r, ok) ==
    LET cell == GpuBox_new(data, r)
        old == list[old_node_from]
        new_node == [[live |-> TRUE, prev |-> None, next |-> None, data |-> r]
                       EXCEPT ![old_node_dir] = old]
        boxed == [nodes EXCEPT ![a] = new_node]
        linked == IF old # None
                  THEN [boxed EXCEPT ![old][new_node_dir] = a]
                  ELSE boxed
        ends == IF old # None
                THEN list
                ELSE [list EXCEPT ![new_node_from] = a]
    IN IF ~ok
       THEN [list |-> list, nodes |-> nodes, regions |-> regions,
             uninitDrops |-> uninitDrops, pushes |-> pushes, panic |-> TRUE]
       ELSE [list |-> [ends EXCEPT ![old_node_from] = a, !.len = @ + 1],
             nodes |-> linked,
             regions |-> cell.regions,
             uninitDrops |-> cell.uninitDrops,
             pushes |-> pushes + 1,
             panic |-> FALSE]

\* $pop_fn, as the state it leaves and the Option<T> it returns: Box::from_raw
\* takes the end node, the end pointer moves to its neighbour, the neighbour's
\* outward link (or the other end pointer) is cleared, len drops by one,
\* into_inner moves the value out and releases the region, and the node's box
\* is released at the end of the block.
pop_fn(new_node_from, old_node_from, new_node_dir, old_node_dir) ==
    LET old_node == list[old_node_from]
        nd == nodes[old_node]
        nb == nd[old_node_dir]
        moved == [list EXCEPT ![old_node_from] = nb]
        inner == into_inner(nd.data)
    IN IF old_node # None
       THEN [list |-> [(IF nb # None THEN moved
                        ELSE [moved EXCEPT ![new_node_from] = None])
                         EXCEPT !.len = @ - 1],
             nodes |-> [(IF nb # None THEN [nodes EXCEPT ![nb][new_node_dir] = None]
                         ELSE nodes)
                          EXCEPT ![old_node] = FreedNode],
             regions |-> inner.regions,
             leaked |-> inner.leaked,
             freedTwice |-> inner.freedTwice \/ ~nd.live,
             pops |-> pops + 1,
             val |-> inner.val]
       ELSE [list |-> list, nodes |-> nodes, regions |-> regions, leaked |-> leaked,
             freedTwice |-> freedTwice, pops |-> pops, val |-> None]

\* (mutant of push_back) `self.len += 1` is left out.
push_back_no_count(data, a, r, ok) ==
    LET out == push_fn("head", "tail", "next", "prev", data, a, r, ok)
    IN [out EXCEPT !.list.len = list.len]

\* (mutant of push_front) `self.len += 1` runs before GpuBox::new, so it
\* has happened when the allocation fails.
push_front_count_first(data, a, r, ok) ==
    LET out == push_fn("tail", "head", "prev", "next", data, a, r, ok)
    IN IF ok THEN out ELSE [out EXCEPT !.list.len = @ + 1]

\* (mutant of pop_front) the macro is instantiated with the link directions of
\* pop_back.
pop_front_wrong_links == pop_fn("tail", "head", "next", "prev")

\* (mutant of push_front) the macro is instantiated for the tail end, as for
\* push_back.
push_front_at_tail(data, a, r, ok) ==
    push_fn("head", "tail", "next", "prev", data, a, r, ok)

\* (mutant of pop_back) the macro is instantiated for the head end, as for
\* pop_front.
pop_back_at_head == pop_fn("tail", "head", "prev", "next")

\* (mutant of pop_back) the arm `None => self.head = None` is taken whatever
\* the neighbour: the other end pointer is always cleared.
pop_back_clears_head ==
    LET out == pop_fn("head", "tail", "next", "prev")
    IN IF list.tail # None THEN [out EXCEPT !.list.head = None] ELSE out

\* (mutant of push_back) the arm `None => self.head = new_node` is taken
\* whatever the old tail: the other end pointer is always written.
push_back_writes_head(data, a, r, ok) ==
    LET out == push_fn("head", "tail", "next", "prev", data, a, r, ok)
    IN IF ok THEN [out EXCEPT !.list.head = a] ELSE out

\* (mutant of pop_front) the value is moved out and its region released, but
\* the head pointer is not advanced and the node stays linked.
pop_front_keeps_node ==
    LET out == pop_fn("tail", "head", "prev", "next")
    IN IF list.head # None
       THEN [out EXCEPT !.list = [list EXCEPT !.len = @ - 1], !.nodes = nodes]
       ELSE out

\* The two instantiations of the macro (lines 148-149).
push_back(data, a, r, ok) == push_fn("head", "tail", "next", "prev", data, a, r, ok)
push_front(data, a, r, ok) == push_fn("tail", "head", "prev", "next", data, a, r, ok)
pop_back == pop_fn("head", "tail", "next", "prev")
pop_front == pop_fn("tail", "head", "prev", "next")

\* LinkedList::len.
len == list.len

\* ------------------------------------------------------------ Iter<'a, T>
\* LinkedList::iter: a snapshot of head, tail and len.
iter == [alive |-> TRUE, head |-> list.head, tail |-> list.tail, len |-> list.len]

\* What dereferencing node address p can give.  A node that is allocated gives
\* its fields; one that is not is a dangling pointer, and the read can give
\* any links and any value.
Deref(p) ==
    IF nodes[p].live
    THEN {[prev |-> nodes[p].prev, next |-> nodes[p].next,
           val |-> as_ref(nodes[p].data).val, dangling |-> FALSE]}
    ELSE [prev : NodeAddrs \cup {None}, next : NodeAddrs \cup {None},
          val : Values, dangling : {TRUE}]

\* Iter::next / Iter::next_back, generated from the same shape: `end` is the
\* cursor the call advances and `dir` the link it follows.  The outcomes are the
\* iterator the call leaves, the Option<&T> it returns, the boxes as_ref leaked
\* and whether it read a dangling node.
iter_step(itr, end, dir) ==
    IF itr.len = 0 \/ itr[end] = None
    THEN {[it |-> itr, val |-> None, leaked |-> leaked, uaf |-> FALSE]}
    ELSE {[it |-> [itr EXCEPT !.len = @ - 1, ![end] = node[dir]],
           val |-> node.val,
           leaked |-> leaked + 1,
           uaf |-> node.dangling] : node \in Deref(itr[end])}

\* (mutant of next_back) the tail cursor follows `next` instead of `prev`.
next_back_wrong_link(itr) == iter_step(itr, "tail", "next")

\* (mutant of next_back) `self.len -= 1` is left out.
next_back_no_count(itr) ==
    {[o EXCEPT !.it.len = itr.len] : o \in iter_step(itr, "tail", "prev")}

\* (mutant of next) the head cursor follows `prev` instead of `next`.
next_wrong_link(itr) == iter_step(itr, "head", "prev")

\* (mutant of next) an exhausted iterator starts over from the list's head.
next_restarting(itr) ==
    IF itr.len = 0 THEN iter_step(iter, "head", "next") ELSE iter_step(itr, "head", "next")

next(itr) == iter_step(itr, "head", "next")
next_back(itr) == iter_step(itr, "tail", "prev")

\* size_hint / ExactSizeIterator::len.
size_hint(itr) == <<itr.len, itr.len>>

\* ------------------------------------------------------ reading the list
\* The node addresses met from p along link `dir`, at most k of them.
RECURSIVE Walk(_, _, _)
Walk(p, dir, k) ==
    IF p = None \/ k = 0 THEN <<>>
    ELSE <<p>> \o Walk(nodes[p][dir], dir, k - 1)

FwdNodes == Walk(list.head, "next", MaxNodes + 1)
BwdNodes == Walk(list.tail, "prev", MaxNodes + 1)
ValuesOf(ns) == [i \in 1..Len(ns) |-> as_ref(nodes[ns[i]].data).val]
\* The values held, head to tail.
Contents == ValuesOf(FwdNodes)
Reverse(s) == [i \in 1..Len(s) |-> s[Len(s) + 1 - i]]

\* ------------------------------------------------- calls, as actions
\* `&mut self` can be taken: the list exists and no iterator borrows it.
Mutable == phase = "live" /\ ~Borrowed

\* A call of push_front or push_back, `out` being what $push_fn computed.
Push(op, out) ==
    /\ Mutable
    /\ list' = out.list
    /\ nodes' = out.nodes
    /\ regions' = out.regions
    /\ uninitDrops' = out.uninitDrops
    /\ pushes' = out.pushes
    /\ ret' = IF out.panic THEN Panicked(op) ELSE Result(op, None)
    /\ UNCHANGED <<leaked, freedTwice, pops, iterVars, dropVars>>

\* A call of pop_front or pop_back, `out` being what $pop_fn computed.
Pop(op, out) ==
    /\ Mutable
    /\ list' = out.list
    /\ nodes' = out.nodes
    /\ regions' = out.regions
    /\ leaked' = out.leaked
    /\ freedTwice' = out.freedTwice
    /\ pops' = out.pops
    /\ ret' = Result(op, out.val)
    /\ UNCHANGED <<uninitDrops, pushes, iterVars, dropVars>>

\* What Box::new / alloc_and_map can return to a push out of the free
\* addresses `free`: nothing is allocated when GpuBox::new fails first.  A
\* scripted client is run against every allocator (any free address), the
\* free-running client against a first-fit allocator (the lowest free address).
AnyFit(free, ok) == IF ok THEN free ELSE {None}
FirstFit(free, ok) == IF ok THEN {a \in free : \A b \in free : a <= b} ELSE {None}

\* A call of len().
Len_call ==
    /\ phase = "live"
    /\ ret' = Result("len", len)
    /\ UNCHANGED <<listVars, heapVars, iterVars, dropVars, pushes, pops>>

\* A call of iter(): the iterator comes into scope.
Iter_call ==
    /\ phase = "live"
    /\ ~it.alive
    /\ it' = iter
    /\ seen' = NoSeen
    /\ iters' = iters + 1
    /\ ret' = Result("iter", None)
    /\ UNCHANGED <<listVars, heapVars, uaf, dropVars, pushes, pops>>

\* (mutant of Iter_advance) the step also moves the list's own end pointer
\* to the cursor, as a draining iterator would.
Iter_advance_draining(op, side, outs) ==
    /\ it.alive
    /\ \E o \in outs :
         /\ it' = o.it
         /\ leaked' = o.leaked
         /\ uaf' = (uaf \/ o.uaf)
         /\ seen' = IF o.val # None THEN [seen EXCEPT ![side] = Append(@, o.val)]
                    ELSE [seen EXCEPT !.ended = TRUE]
         /\ ret' = Result(op, o.val)
         /\ list' = IF side = "fwd" THEN [list EXCEPT !.head = o.it.head]
                    ELSE [list EXCEPT !.tail = o.it.tail]
    /\ UNCHANGED <<nodes, regions, uninitDrops, freedTwice, iters, dropVars, pushes, pops>>

\* A call of next()/next_back() on the iterator in scope, `outs` being the
\* outcomes iter_step computed.
Iter_advance(op, side, outs) ==
    /\ it.alive
    /\ \E o \in outs :
         /\ it' = o.it
         /\ leaked' = o.leaked
         /\ uaf' = (uaf \/ o.uaf)
         /\ seen' = IF o.val # None THEN [seen EXCEPT ![side] = Append(@, o.val)]
                    ELSE [seen EXCEPT !.ended = TRUE]
         /\ ret' = Result(op, o.val)
    /\ UNCHANGED <<listVars, uninitDrops, freedTwice, iters, dropVars, pushes, pops>>

\* The iterator goes out of scope; the borrow of the list ends.
Iter_end ==
    /\ it.alive
    /\ it' = NoIter
    /\ seen' = NoSeen
    /\ ret' = Result("iter_end", None)
    /\ UNCHANGED <<listVars, heapVars, uaf, iters, dropVars, pushes, pops>>

\* The list goes out of scope and Drop::drop is entered.
Drop_enter ==
    /\ Mutable
    /\ phase' = "dropping"
    /\ dropStart' = Contents
    /\ destroyed' = <<>>
    /\ ret' = Result("drop", None)
    /\ UNCHANGED <<listVars, heapVars, iterVars, pushes, pops>>

\* (mutant of Drop_loop) `if let` in place of `while let`: one pop_back only.
Drop_loop_once ==
    /\ phase = "dropping"
    /\ LET out == pop_back
       IN /\ list' = out.list
          /\ nodes' = out.nodes
          /\ regions' = out.regions
          /\ leaked' = out.leaked
          /\ freedTwice' = out.freedTwice
          /\ pops' = out.pops
          /\ ret' = Result("pop_back", out.val)
          /\ destroyed' = IF out.val # None THEN Append(destroyed, out.val) ELSE destroyed
          /\ phase' = "dropped"
    /\ UNCHANGED <<uninitDrops, pushes, iterVars, dropStart>>

\* (mutant of Drop_loop) the loop pops from the front.
Drop_loop_front ==
    /\ phase = "dropping"
    /\ LET out == pop_front
       IN /\ list' = out.list
          /\ nodes' = out.nodes
          /\ regions' = out.regions
          /\ leaked' = out.leaked
          /\ freedTwice' = out.freedTwice
          /\ pops' = out.pops
          /\ ret' = Result("pop_back", out.val)
          /\ destroyed' = IF out.val # None THEN Append(destroyed, out.val) ELSE destroyed
          /\ phase' = IF out.val # None THEN "dropping" ELSE "dropped"
    /\ UNCHANGED <<uninitDrops, pushes, iterVars, dropStart>>

\* One turn of `while let Some(_) = self.pop_back() {}`: the value returned is
\* destroyed at once; None ends the loop.
Drop_loop ==
    /\ phase = "dropping"
    /\ LET out == pop_back
       IN /\ list' = out.list
          /\ nodes' = out.nodes
          /\ regions' = out.regions
          /\ leaked' = out.leaked
          /\ freedTwice' = out.freedTwice
          /\ pops' = out.pops
          /\ ret' = Result("pop_back", out.val)
          /\ destroyed' = IF out.val # None THEN Append(destroyed, out.val) ELSE destroyed
          /\ phase' = IF out.val # None THEN "dropping" ELSE "dropped"
    /\ UNCHANGED <<uninitDrops, pushes, iterVars, dropStart>>

\* --------------------------------------------- a free-running client
InitList ==
    /\ list = with_device
    /\ nodes = [a \in NodeAddrs |-> FreedNode]
    /\ regions = [r \in RegionIds |-> FreedRegion]
    /\ leaked = 0
    /\ uninitDrops = 0
    /\ freedTwice = FALSE
    /\ uaf = FALSE
    /\ it = NoIter
    /\ seen = NoSeen
    /\ iters = 0
    /\ phase = "live"
    /\ dropStart = <<>>
    /\ destroyed = <<>>
    /\ pushes = 0
    /\ pops = 0
    /\ ret = Result("new", None)

Init == InitList /\ drv = [pc |-> "free"]

PushBack ==
    /\ pushes < MaxPushes
    /\ \E v \in Values, ok \in BOOLEAN :
         \E a \in FirstFit(FreeNodes, ok), r \in FirstFit(FreeRegions, ok) :
           Push("push_back", push_back(v, a, r, ok))
    /\ UNCHANGED drv

PushFront ==
    /\ pushes < MaxPushes
    /\ \E v \in Values, ok \in BOOLEAN :
         \E a \in FirstFit(FreeNodes, ok), r \in FirstFit(FreeRegions, ok) :
           Push("push_front", push_front(v, a, r, ok))
    /\ UNCHANGED drv

PopBack == Pop("pop_back", pop_back) /\ UNCHANGED drv
PopFront == Pop("pop_front", pop_front) /\ UNCHANGED drv
ListLen == Len_call /\ UNCHANGED drv
IterNew == iters < MaxIters /\ Iter_call /\ UNCHANGED drv
IterNext == Iter_advance("next", "fwd", next(it)) /\ UNCHANGED drv
IterNextBack == Iter_advance("next_back", "bwd", next_back(it)) /\ UNCHANGED drv
IterEnd == Iter_end /\ UNCHANGED drv
DropEnter == Drop_enter /\ UNCHANGED drv
DropLoop == Drop_loop /\ UNCHANGED drv

Next ==
    \/ PushBack
    \/ PushFront
    \/ PopBack
    \/ PopFront
    \/ ListLen
    \/ IterNew
    \/ IterNext
    \/ IterNextBack
    \/ IterEnd
    \/ DropEnter
    \/ DropLoop

Spec == Init /\ [][Next]_vars

\* ------------------------------------- a client shaped like test_push_pop
\* The value sequences a scripted client pushes.
Scripts == UNION {[1..n -> Values] : n \in 0..MaxNodes}

\* test_push_pop for any script vs: a new list, push_front of each value, then
\* pop_back until one call past the last value; a second new list, push_back of
\* each value, then pop_front likewise.  drv.out holds what the pops of the
\* current run returned, drv.out1 what those of the first run returned.
InitTest ==
    /\ InitList
    /\ drv \in [run : {1}, vs : Scripts, pushed : {0}, out : {<<>>}, out1 : {<<>>}]

RunOver == Len(drv.out) = Len(drv.vs) + 1

TestPush(op) ==
    /\ drv.pushed < Len(drv.vs)
    /\ \E a \in AnyFit(FreeNodes, TRUE), r \in AnyFit(FreeRegions, TRUE) :
         LET v == drv.vs[drv.pushed + 1]
         IN Push(op, IF op = "push_front" THEN push_front(v, a, r, TRUE)
                     ELSE push_back(v, a, r, TRUE))
    /\ drv' = [drv EXCEPT !.pushed = @ + 1]

TestPop(op) ==
    /\ drv.pushed = Len(drv.vs)
    /\ ~RunOver
    /\ Pop(op, IF op = "pop_back" THEN pop_back ELSE pop_front)
    /\ drv' = [drv EXCEPT !.out = Append(@, ret'.val)]

TestPushFront == drv.run = 1 /\ TestPush("push_front")
TestPopBack == drv.run = 1 /\ TestPop("pop_back")
TestPushBack == drv.run = 2 /\ TestPush("push_back")
TestPopFront == drv.run = 2 /\ TestPop("pop_front")

\* `let mut list = LinkedList::new();` the second time (line 243).
TestNewList ==
    /\ drv.run = 1
    /\ RunOver
    /\ list' = with_device
    /\ ret' = Result("new", None)
    /\ drv' = [drv EXCEPT !.run = 2, !.pushed = 0, !.out = <<>>, !.out1 = drv.out]
    /\ UNCHANGED <<nodes, regions, heapVars, iterVars, dropVars, pushes, pops>>

NextTest ==
    \/ TestPushFront
    \/ TestPopBack
    \/ TestNewList
    \/ TestPushBack
    \/ TestPopFront

SpecTest == InitTest /\ [][NextTest]_vars

\* ------------------------------------------ a client that walks the list
\* push_back of each value of a script, iter(), then next() only (dir "fwd")
\* or next_back() only (dir "bwd") until the first None.
InitWalk ==
    /\ InitList
    /\ drv \in [vs : Scripts, pushed : {0}, dir : {"fwd", "bwd"}, done : {FALSE}]

WalkPushBack ==
    /\ drv.pushed < Len(drv.vs)
    /\ \E a \in AnyFit(FreeNodes, TRUE), r \in AnyFit(FreeRegions, TRUE) :
         Push("push_back", push_back(drv.vs[drv.pushed + 1], a, r, TRUE))
    /\ drv' = [drv EXCEPT !.pushed = @ + 1]

WalkIter ==
    /\ drv.pushed = Len(drv.vs)
    /\ iters = 0
    /\ Iter_call
    /\ UNCHANGED drv

WalkNext ==
    /\ drv.dir = "fwd"
    /\ ~drv.done
    /\ Iter_advance("next", "fwd", next(it))
    /\ drv' = [drv EXCEPT !.done = (ret'.val = None)]

WalkNextBack ==
    /\ drv.dir = "bwd"
    /\ ~drv.done
    /\ Iter_advance("next_back", "bwd", next_back(it))
    /\ drv' = [drv EXCEPT !.done = (ret'.val = None)]

NextWalk ==
    \/ WalkPushBack
    \/ WalkIter
    \/ WalkNext
    \/ WalkNextBack

SpecWalk == InitWalk /\ [][NextWalk]_vars

\* ------------------------------- a client that pushes and pops at once
\* Any pushes and pops; now and then a push at one end (drv.pc = "pushed",
\* remembering the value, the end and len before it) followed at once by the
\* pop at the same end (drv.pc = "popped").
InitStack ==
    /\ InitList
    /\ drv = [pc |-> "free", v |-> None, end |-> "none", l |-> 0]

StackFree == [pc |-> "free", v |-> None, end |-> "none", l |-> 0]

StackAnyPush ==
    /\ drv.pc # "pushed"
    /\ pushes < MaxPushes
    /\ \E v \in Values, a \in FirstFit(FreeNodes, TRUE), r \in FirstFit(FreeRegions, TRUE) :
         \/ Push("push_back", push_back(v, a, r, TRUE))
         \/ Push("push_front", push_front(v, a, r, TRUE))
    /\ drv' = StackFree

StackAnyPop ==
    /\ drv.pc # "pushed"
    /\ \/ Pop("pop_back", pop_back)
       \/ Pop("pop_front", pop_front)
    /\ drv' = StackFree

StackPushBack ==
    /\ drv.pc # "pushed"
    /\ pushes < MaxPushes
    /\ \E v \in Values, a \in FirstFit(FreeNodes, TRUE), r \in FirstFit(FreeRegions, TRUE) :
         /\ Push("push_back", push_back(v, a, r, TRUE))
         /\ drv' = [pc |-> "pushed", v |-> v, end |-> "back", l |-> len]

StackPushFront ==
    /\ drv.pc # "pushed"
    /\ pushes < MaxPushes
    /\ \E v \in Values, a \in FirstFit(FreeNodes, TRUE), r \in FirstFit(FreeRegions, TRUE) :
         /\ Push("push_front", push_front(v, a, r, TRUE))
         /\ drv' = [pc |-> "pushed", v |-> v, end |-> "front", l |-> len]

StackPopBack ==
    /\ drv.pc = "pushed"
    /\ drv.end = "back"
    /\ Pop("pop_back", pop_back)
    /\ drv' = [drv EXCEPT !.pc = "popped"]

StackPopFront ==
    /\ drv.pc = "pushed"
    /\ drv.end = "front"
    /\ Pop("pop_front", pop_front)
    /\ drv' = [drv EXCEPT !.pc = "popped"]

NextStack ==
    \/ StackAnyPush
    \/ StackAnyPop
    \/ StackPushBack
    \/ StackPushFront
    \/ StackPopBack
    \/ StackPopFront

SpecStack == InitStack /\ [][NextStack]_vars

\* ------------------------- a client that keeps a deque of its own alongside
\* Any pushes (failing ones too) and pops at both ends; next to the list the
\* client keeps the sequence drv.S, prepending on push_front, appending on
\* push_back, taking the first element on pop_front and the last on pop_back,
\* and drv.res, what its own sequence gave for the last pop.
InitDeque ==
    /\ InitList
    /\ drv = [S |-> <<>>, res |-> None]

\* The abstract pops: the element taken (None when S is empty) and what is left.
AbsFirst(S) == IF S = <<>> THEN None ELSE Head(S)
AbsLast(S) == IF S = <<>> THEN None ELSE S[Len(S)]
AbsDropFirst(S) == IF S = <<>> THEN S ELSE Tail(S)
AbsDropLast(S) == IF S = <<>> THEN S ELSE SubSeq(S, 1, Len(S) - 1)

DequePushBack ==
    /\ pushes < MaxPushes
    /\ \E v \in Values, ok \in BOOLEAN :
         \E a \in FirstFit(FreeNodes, ok), r \in FirstFit(FreeRegions, ok) :
           /\ Push("push_back", push_back(v, a, r, ok))
           /\ drv' = [S |-> IF ok THEN Append(drv.S, v) ELSE drv.S, res |-> None]

DequePushFront ==
    /\ pushes < MaxPushes
    /\ \E v \in Values, ok \in BOOLEAN :
         \E a \in FirstFit(FreeNodes, ok), r \in FirstFit(FreeRegions, ok) :
           /\ Push("push_front", push_front(v, a, r, ok))
           /\ drv' = [S |-> IF ok THEN <<v>> \o drv.S ELSE drv.S, res |-> None]

DequePopBack ==
    /\ Pop("pop_back", pop_back)
    /\ drv' = [S |-> AbsDropLast(drv.S), res |-> AbsLast(drv.S)]

DequePopFront ==
    /\ Pop("pop_front", pop_front)
    /\ drv' = [S |-> AbsDropFirst(drv.S), res |-> AbsFirst(drv.S)]

NextDeque ==
    \/ DequePushBack
    \/ DequePushFront
    \/ DequePopBack
    \/ DequePopFront

SpecDeque == InitDeque /\ [][NextDeque]_vars

\* ------------------------------------ a client that drops the list
\* Any pushes and pops, then the list goes out of scope.  Drop::drop is
\* straight-line single-threaded code: once entered, its loop keeps taking
\* turns until it ends (weak fairness of DropLoop).
NextDrop ==
    \/ PushBack
    \/ PushFront
    \/ PopBack
    \/ PopFront
    \/ DropEnter
    \/ DropLoop

SpecDrop == Init /\ [][NextDrop]_vars /\ WF_vars(DropLoop)

\* ============================================================ properties
\* The node reached from p by following link `dir` k times (None once the
\* chain ends).
RECURSIVE Follow(_, _, _)
Follow(p, dir, k) ==
    IF k = 0 \/ p = None THEN p ELSE Follow(nodes[p][dir], dir, k - 1)

PopOps == {"pop_front", "pop_back"}
PushOps == {"push_front", "push_back"}

\* C2 (length invariant): at every moment len equals the number of pushes that
\* returned minus the number of pops that returned a value, len() reports that
\* number, and a pop on an empty list returns None and leaves len at 0.
C2_LengthInvariant ==
    /\ [](/\ list.len = pushes - pops
          /\ list.len >= 0
          /\ (ret.op = "len" => ret.val = pushes - pops))
    /\ [][(list.len = 0 /\ (PopBack \/ PopFront \/ DropLoop))
            => (ret'.val = None /\ list'.len = 0 /\ pops' = pops)]_vars

\* C2 witness: pushes and pops have both happened, then a pop found the list
\* empty.
C2_Witness ==
    /\ pushes >= 2
    /\ pops = pushes
    /\ ret.op \in PopOps
    /\ ret.val = None

\* C3 (structural invariant): head is absent iff tail is absent iff len = 0;
\* when len >= 1, len-1 next links lead from head to tail and len-1 prev links
\* from tail to head; head has no prev and tail has no next.
C3_Structure ==
    /\ (list.head = None) <=> (list.tail = None)
    /\ (list.tail = None) <=> (list.len = 0)
    /\ list.len >= 1 =>
         /\ Follow(list.head, "next", list.len - 1) = list.tail
         /\ Follow(list.tail, "prev", list.len - 1) = list.head
         /\ nodes[list.head].prev = None
         /\ nodes[list.tail].next = None

\* C3 witness: a full list that has seen pushes at both ends and pops.
C3_Witness ==
    /\ list.len = MaxNodes
    /\ pops >= 1
    /\ ret.op = "push_front"

\* C5 (teardown): once Drop::drop has returned for a list that was not empty,
\* the values it destroyed are the values the list held, each once, tail to
\* head; no node and no region is still allocated and none was released twice.
C5_Teardown ==
    (phase = "dropped" /\ dropStart # <<>>) =>
        /\ destroyed = Reverse(dropStart)
        /\ LiveNodes = {}
        /\ LiveRegions = {}
        /\ ~freedTwice

\* C5 witness: a list of three values, not a palindrome, was dropped.
C5_Witness ==
    /\ phase = "dropped"
    /\ Len(dropStart) = 3
    /\ dropStart[1] # dropStart[3]

\* C8 (push failure atomicity): a push that did not insert panicked (the
\* failure reaches the caller), and a push that panicked left head, tail, len,
\* every node and every region as they were.
C8_PushFailureAtomic ==
    [][/\ (ret'.op \in PushOps /\ pushes' = pushes) => ret'.panic
       /\ ret'.panic => /\ ret'.op \in PushOps
                        /\ UNCHANGED <<list, nodes, regions, pushes>>]_vars

\* C8 witness: a push on a list of two elements failed.
C8_Witness ==
    /\ ret.panic
    /\ ret.op \in PushOps
    /\ list.len = 2

\* C9 (iteration is read-only): iter(), next() and next_back() leave head,
\* tail, len, every node and every stored value as they were.
C9_IterReadOnly ==
    [][(IterNew \/ IterNext \/ IterNextBack) => UNCHANGED <<list, nodes, regions>>]_vars

\* C9 witness: an iterator over a list of three has yielded from both ends.
C9_Witness ==
    /\ it.alive
    /\ list.len = 3
    /\ seen.fwd # <<>>
    /\ seen.bwd # <<>>

\* C10 (no mutation under iteration): while an iterator is in scope the list,
\* its nodes and its regions do not change and the list is not dropped, and no
\* iterator step ever reads a node that is not allocated.
C10_NoMutationUnderIter ==
    /\ [][it.alive => UNCHANGED <<list, nodes, regions, phase>>]_vars
    /\ []~uaf

\* C10 witness: an iterator made after a pop has released a node yields.
C10_Witness ==
    /\ it.alive
    /\ pops >= 1
    /\ ret.op \in {"next", "next_back"}
    /\ ret.val # None

\* What a run of pops must return for script vs: each value, then None.
Expected(vs) == vs \o <<None>>
IsPrefix(a, b) == Len(a) <= Len(b) /\ \A i \in 1..Len(a) : a[i] = b[i]
TestOver == drv.run = 2 /\ RunOver

\* C1 (order law): push_front(v1..vn) then pop_back, and push_back(v1..vn) then
\* pop_front, both return v1..vn in that order and then None.
C1_OrderLaw ==
    /\ IsPrefix(drv.out, Expected(drv.vs))
    /\ IsPrefix(drv.out1, Expected(drv.vs))
    /\ drv.run = 2 => drv.out1 = Expected(drv.vs)
    /\ TestOver => drv.out = Expected(drv.vs)

\* C1 witness: both runs are over for a script of three values that is not a
\* palindrome.
C1_Witness ==
    /\ TestOver
    /\ Len(drv.vs) = 3
    /\ drv.vs[1] # drv.vs[3]
    /\ Len(drv.out1) = 4

\* C7 as stated (symmetry): what push_front + pop_back returns is the reverse
\* of what push_back + pop_front returns for the same values.
C7_ReversedAsStated ==
    TestOver => SubSeq(drv.out1, 1, Len(drv.vs)) = Reverse(SubSeq(drv.out, 1, Len(drv.vs)))

\* C7 amended: what push_front + pop_back returns is equal to (not the reverse
\* of) what push_back + pop_front returns for the same values.
C7_SameOrder ==
    TestOver => drv.out1 = drv.out

\* C7 witness: both runs are over for a script of two different values.
C7_Witness ==
    /\ TestOver
    /\ Len(drv.vs) = 2
    /\ drv.vs[1] # drv.vs[2]
    /\ drv.out1 = <<drv.vs[1], drv.vs[2], None>>

\* C4 (iteration completeness): over a list built by push_back(v1..vn), next()
\* alone yields v1..vn and next_back() alone yields vn..v1, and the number of
\* items yielded before the first None is len().
C4_IterationComplete ==
    /\ IsPrefix(seen.fwd, drv.vs)
    /\ IsPrefix(seen.bwd, Reverse(drv.vs))
    /\ drv.done =>
         /\ ret.val = None
         /\ Len(seen.fwd) + Len(seen.bwd) = len
         /\ len = Len(drv.vs)
         /\ drv.dir = "fwd" => (seen.fwd = drv.vs /\ seen.bwd = <<>>)
         /\ drv.dir = "bwd" => (seen.bwd = Reverse(drv.vs) /\ seen.fwd = <<>>)

\* C4 witness: a backward walk over three values, not a palindrome, has ended.
C4_Witness ==
    /\ drv.done
    /\ drv.dir = "bwd"
    /\ Len(drv.vs) = 3
    /\ drv.vs[1] # drv.vs[3]
    /\ Len(seen.bwd) = 3

\* C6 (stack law): a push at one end followed at once by the pop at the same
\* end returns the value pushed and leaves len as it was before the push.
C6_StackLaw ==
    drv.pc = "popped" => (ret.val = drv.v /\ len = drv.l /\ ~ret.panic)

\* C6 witness: push_front then pop_front on a list of two whose head held
\* another value.
C6_Witness ==
    /\ drv.pc = "popped"
    /\ drv.end = "front"
    /\ len = 2
    /\ as_ref(nodes[list.head].data).val # drv.v

\* C11 (exhaustion is permanent): once a call of next or next_back on an
\* iterator has returned None (seen.ended), every later call of next or
\* next_back on it returns None and yields nothing.
C11_ExhaustionPermanent ==
    [][(seen.ended /\ (IterNext \/ IterNextBack))
         => (ret'.val = None /\ seen' = seen /\ it' = it)]_vars

\* C11 witness: an iterator that walked a list of two forward to its end was
\* then called from the other end.
C11_Witness ==
    /\ seen.ended
    /\ Len(seen.fwd) = 2
    /\ ret.op = "next_back"
    /\ ret.val = None

\* The number of items the iterator in scope has yielded.
Yielded == Len(seen.fwd) + Len(seen.bwd)

\* C12 (meeting in the middle): under any interleaving of next and next_back,
\* a call that yields moves its own cursor one node along and lowers the
\* remaining count by one, leaving the other cursor alone; next yields the
\* elements head to tail, next_back tail to head; and when the first None comes
\* exactly len items have been yielded, the two runs together being the list,
\* each element once.
C12_MeetInTheMiddle ==
    /\ [](it.alive =>
            /\ IsPrefix(seen.fwd, Contents)
            /\ IsPrefix(seen.bwd, Reverse(Contents))
            /\ Yielded + it.len = len
            /\ seen.ended => (Yielded = len /\ seen.fwd \o Reverse(seen.bwd) = Contents))
    /\ [][/\ (IterNext /\ ret'.val # None) =>
               /\ it'.len = it.len - 1
               /\ it'.head = nodes[it.head].next
               /\ it'.tail = it.tail
          /\ (IterNextBack /\ ret'.val # None) =>
               /\ it'.len = it.len - 1
               /\ it'.tail = nodes[it.tail].prev
               /\ it'.head = it.head]_vars

\* C12 witness: over a list of three different ends, the iterator yielded one
\* item from the back, then two from the front, then None.
C12_Witness ==
    /\ seen.ended
    /\ len = 3
    /\ Len(seen.bwd) = 1
    /\ Len(seen.fwd) = 2
    /\ seen.fwd[1] # seen.bwd[1]
    /\ ret.op = "next"

\* The two macro-states of the list.
Empty == list.len = 0 /\ list.head = None /\ list.tail = None
NonEmpty ==
    /\ list.len >= 1
    /\ list.head # None
    /\ list.tail # None
    /\ (list.head = list.tail) <=> (list.len = 1)

\* C13 (macro-state transitions): the list is always Empty or Non-Empty; it
\* goes from Empty to Non-Empty only by a push that returned, from Non-Empty to
\* Empty only by a pop run at len = 1, and no other call changes the
\* macro-state.
C13_MacroStates ==
    /\ [](Empty \/ NonEmpty)
    /\ [][/\ (Empty /\ NonEmpty') => (ret'.op \in PushOps /\ ~ret'.panic)
          /\ (NonEmpty /\ Empty') =>
               (ret'.op \in PopOps /\ ret'.val # None /\ list.len = 1)
          /\ (\/ ret'.op \notin (PushOps \cup PopOps)
              \/ ret'.panic
              \/ (ret'.op \in PopOps /\ ret'.val = None))
               => (Empty <=> Empty')]_vars

\* C13 witness: the pop of the last element, the list having held two, has
\* emptied the list.
C13_Witness ==
    /\ Empty
    /\ pushes = 2
    /\ pops = 2
    /\ ret.op = "pop_front"
    /\ ret.val # None

\* What a push that returned, at the end `near` (the other end being `far`),
\* may have changed: on a list that was not empty, `far` is as it was, the old
\* end node has only its outward link `out` rewritten (to the new node), every
\* other node and every stored value is as it was; on an empty list both end
\* pointers are the new node.  len has grown by one either way.
PushFrame(near, far, out) ==
    /\ list'.len = list.len + 1
    /\ list'[near] \notin LiveNodes
    /\ \A r \in LiveRegions : regions'[r] = regions[r]
    /\ IF list[near] # None
       THEN /\ list'[far] = list[far]
            /\ nodes'[list[near]] = [nodes[list[near]] EXCEPT ![out] = list'[near]]
            /\ \A a \in LiveNodes \ {list[near]} : nodes'[a] = nodes[a]
       ELSE /\ list'[far] = list'[near]
            /\ \A a \in LiveNodes : nodes'[a] = nodes[a]

\* C14 (push frame condition): push_back on a list that is not empty leaves
\* head unchanged and changes only tail, the old tail's next link and len;
\* push_front likewise leaves tail unchanged and changes only head, the old
\* head's prev link and len; the opposite end pointer is written only when the
\* list was empty; stored values and all other links are unchanged.
C14_PushFrame ==
    [][/\ (PushBack /\ ~ret'.panic) => PushFrame("tail", "head", "next")
       /\ (PushFront /\ ~ret'.panic) => PushFrame("head", "tail", "prev")]_vars

\* C14 witness: a push_back on a list of two left head where it was, at a node
\* other than the old tail.
C14_Witness ==
    /\ ret.op = "push_back"
    /\ ~ret.panic
    /\ len = 3
    /\ nodes[list.head].next # list.tail

\* Every pointer a later pop, iterator step or teardown can follow leads to an
\* allocated node, and every allocated node holds a value cell whose region is
\* allocated (its value not yet moved out) and is no other node's.
NoStaleAccess ==
    /\ list.head \in LiveNodes \cup {None}
    /\ list.tail \in LiveNodes \cup {None}
    /\ \A a \in LiveNodes :
         /\ nodes[a].prev \in LiveNodes \cup {None}
         /\ nodes[a].next \in LiveNodes \cup {None}
         /\ nodes[a].data \in LiveRegions
         /\ \A b \in LiveNodes : nodes[b].data = nodes[a].data => b = a
    /\ (it.alive /\ it.len > 0) => (it.head \in LiveNodes /\ it.tail \in LiveNodes)

\* The regions and nodes a step releases.
RegionsReleased == {r \in LiveRegions : ~regions'[r].live}
NodesReleased == {a \in LiveNodes : ~nodes'[a].live}

\* C15 (single extraction): a value cell is consumed by into_inner at most
\* once (no consumed cell is consumed or released again), only inside the pop
\* that removes its node, and after that no pointer the list or an iterator
\* will follow leads to the cell or its node.
C15_SingleExtraction ==
    /\ [](~freedTwice /\ ~uaf /\ NoStaleAccess)
    /\ [][RegionsReleased # {} =>
            /\ ret'.op \in PopOps
            /\ ret'.val # None
            /\ \E a \in LiveNodes :
                 /\ a \in {list.head, list.tail}
                 /\ NodesReleased = {a}
                 /\ RegionsReleased = {nodes[a].data}
                 /\ ret'.val = regions[nodes[a].data].val]_vars

\* C15 witness: a second value has been moved out, by pop_front, while
\* another node is still linked.
C15_Witness ==
    /\ pops = 2
    /\ len = 1
    /\ ret.op = "pop_front"
    /\ ret.val # None
    /\ pushes = 3

\* The set of the elements of a sequence.
Range(q) == {q[i] : i \in 1..Len(q)}
NodesCreated == {a \in NodeAddrs : ~nodes[a].live /\ nodes'[a].live}
RegionsCreated == {r \in RegionIds : ~regions[r].live /\ regions'[r].live}

\* C16 (node lifecycle): a push that returned creates exactly one node and one
\* region, a pop that returned a value (from the client or from Drop) destroys
\* exactly one of each, and nothing else creates or destroys any; so the
\* allocated nodes and the allocated regions both number len, every allocated
\* node is reachable from head, none is released twice, and after teardown none
\* is left.
C16_NodeLifecycle ==
    /\ [](/\ Cardinality(LiveNodes) = len
          /\ Cardinality(LiveRegions) = len
          /\ LiveNodes = Range(FwdNodes)
          /\ ~freedTwice
          /\ phase = "dropped" => (LiveNodes = {} /\ LiveRegions = {}))
    /\ [][/\ Cardinality(NodesCreated) = pushes' - pushes
          /\ Cardinality(RegionsCreated) = pushes' - pushes
          /\ Cardinality(NodesReleased) = pops' - pops
          /\ Cardinality(RegionsReleased) = pops' - pops
          /\ pushes' - pushes \in {0, 1}
          /\ pops' - pops \in {0, 1}
          /\ (pushes' = pushes + 1) <=> (ret'.op \in PushOps /\ ~ret'.panic)
          /\ (pops' = pops + 1) <=> (ret'.op \in PopOps /\ ret'.val # None)]_vars

\* C16 witness: an address released by a pop has been handed out again by a
\* later push, the list holding two nodes.
C16_Witness ==
    /\ pushes = 3
    /\ pops = 1
    /\ len = 2
    /\ ret.op \in PushOps
    /\ Cardinality(LiveNodes) = 2

\* C17 (zero-copy peek): GpuBox::as_ref allocates nothing, so no call that
\* goes through it (next, next_back, and pop_front/pop_back through
\* into_inner, also inside Drop) leaves an allocation behind, and once the list
\* has been torn down no allocation made by a list operation is left.
C17_ZeroCopyPeek ==
    /\ [][(IterNext \/ IterNextBack \/ PopBack \/ PopFront \/ DropLoop)
            => leaked' = leaked]_vars
    /\ [](phase = "dropped" => (leaked = 0 /\ LiveNodes = {} /\ LiveRegions = {}))

\* C18 (deque refinement): run next to an abstract sequence S, every pop
\* returns what the abstract pop returns, the values read from head along next
\* are S, those read from tail along prev are S reversed, and len is Len(S).
C18_DequeRefinement ==
    /\ Contents = drv.S
    /\ ValuesOf(BwdNodes) = Reverse(drv.S)
    /\ len = Len(drv.S)
    /\ ret.op \in PopOps => ret.val = drv.res

\* C18 witness: four pushes and two pops have left a list of two different
\* values, the last call being a pop_back that returned a value.
C18_Witness ==
    /\ Len(drv.S) = 2
    /\ drv.S[1] # drv.S[2]
    /\ pushes = 4
    /\ pops = 2
    /\ ret.op = "pop_back"
    /\ ret.val # None

\* C19 (iterator cursor invariant): while the remaining count is above 0 both
\* cursors are present and point to nodes of the list, the head cursor is
\* remaining-1 next links before the tail cursor, size_hint reports exactly the
\* number of items not yet yielded, and no call returns None.
C19_CursorInvariant ==
    /\ [](it.alive =>
            /\ size_hint(it) = <<len - Yielded, len - Yielded>>
            /\ it.len > 0 =>
                 /\ it.head \in Range(FwdNodes)
                 /\ it.tail \in Range(FwdNodes)
                 /\ Follow(it.head, "next", it.len - 1) = it.tail
                 /\ Follow(it.tail, "prev", it.len - 1) = it.head)
    /\ [][(it.len > 0 /\ (IterNext \/ IterNextBack)) => ret'.val # None]_vars

\* C19 witness: an iterator over a list of three, made after a pop, has one
\* item left after yielding from both ends.
C19_Witness ==
    /\ it.alive
    /\ len = 3
    /\ pops >= 1
    /\ it.len = 1
    /\ it.head = it.tail
    /\ seen.fwd # <<>>
    /\ seen.bwd # <<>>

\* C20 (teardown terminates): the drop loop, entered at len = n, ends; it ends
\* after n calls of pop_back that returned a value and one that returned None,
\* with head absent, tail absent and len = 0.
C20_TeardownTerminates ==
    /\ (phase = "dropping") ~> (phase = "dropped")
    /\ [](phase = "dropping" => Len(destroyed) + len = Len(dropStart))
    /\ [](phase = "dropped" =>
            /\ Len(destroyed) = Len(dropStart)
            /\ ret = Result("pop_back", None)
            /\ list = with_device)

\* C20 witness: the drop loop, entered at len = 3 after a pop, has ended.
C20_Witness ==
    /\ phase = "dropped"
    /\ Len(destroyed) = 3
    /\ pops = 4
    /\ ret = Result("pop_back", None)

====
